---- MODULE Spec2Model ----
(***************************************************************************)
(* Model of scripts/fetch_baidu_hotsearch.py: one scheduled run fetches    *)
(* the hot search board, extracts the ranked cards and writes the dated    *)
(* snapshot and latest.json.                                               *)
(*                                                                         *)
(* Texts are sequences of one-character strings, so that str.strip() and   *)
(* int() are computed character by character.  A card is the list of the   *)
(* elements each selector matches inside it, in document order;            *)
(* select_one takes the first.  Time is counted in hours since midnight    *)
(* UTC of day 0.                                                           *)
(***************************************************************************)
EXTENDS Integers, Sequences, FiniteSets, TLC

(* ------------------------------ bounds --------------------------------- *)
MaxCards == 3        \* cards on a page of fully populated cards
MaxPartialCards == 1 \* cards on a page of partially populated cards
MaxRuns == 3         \* scheduled runs of main
MaxClock == 40       \* last hour the clock can show
TickHours == 8       \* granularity of the clock readings

(* --------------------------- program constants ------------------------- *)
UTC_OFFSET_HOURS == 8
HOURS_PER_DAY == 24

(* ------------------------------- str ----------------------------------- *)
Whitespace == {" ", "\n", "\t"}
DigitChars == <<"0", "1", "2", "3", "4", "5", "6", "7", "8", "9">>
IsDigit(c) == \E n \in 1..10 : DigitChars[n] = c
DigitVal(c) == (CHOOSE n \in 1..10 : DigitChars[n] = c) - 1

RECURSIVE LStrip(_)
LStrip(s) == IF s # <<>> /\ Head(s) \in Whitespace THEN LStrip(Tail(s)) ELSE s

RECURSIVE RStrip(_)
RStrip(s) ==
  IF s # <<>> /\ s[Len(s)] \in Whitespace
    THEN RStrip(SubSeq(s, 1, Len(s) - 1))
    ELSE s

\* str.strip()
Strip(s) == RStrip(LStrip(s))

\* the digits of an int() literal: digits, single underscores between them
ValidDigits(b) ==
  /\ b # <<>>
  /\ IsDigit(b[1])
  /\ IsDigit(b[Len(b)])
  /\ \A i \in 1..Len(b) : IsDigit(b[i]) \/ b[i] = "_"
  /\ \A i \in 1..(Len(b) - 1) : ~(b[i] = "_" /\ b[i + 1] = "_")

RECURSIVE DigitsValue(_, _)
DigitsValue(b, acc) ==
  IF b = <<>> THEN acc
  ELSE IF Head(b) = "_" THEN DigitsValue(Tail(b), acc)
  ELSE DigitsValue(Tail(b), 10 * acc + DigitVal(Head(b)))

\* int() with the sign dropped
ParseInt_unsigned(s) ==
  LET t == Strip(s)
      signed == t # <<>> /\ Head(t) \in {"+", "-"}
      body == IF signed THEN Tail(t) ELSE t
  IN  IF ValidDigits(body)
        THEN [ok |-> TRUE, val |-> DigitsValue(body, 0)]
        ELSE [ok |-> FALSE, val |-> 0]

\* int(text): ok = FALSE stands for ValueError
ParseInt(s) ==
  LET t == Strip(s)
      signed == t # <<>> /\ Head(t) \in {"+", "-"}
      body == IF signed THEN Tail(t) ELSE t
  IN  IF ValidDigits(body)
        THEN [ok |-> TRUE,
              val |-> IF signed /\ Head(t) = "-"
                        THEN 0 - DigitsValue(body, 0)
                        ELSE DigitsValue(body, 0)]
        ELSE [ok |-> FALSE, val |-> 0]

(* ------------------------------ cards ---------------------------------- *)
\* card.select_one(selector): the first matching element, or None
Matches(elems) == elems # <<>>
SelectOne(elems) == Head(elems)

\* an <a class="c-single-text-ellipsis"> element, with or without href
Link(hasHref, href) == [has_href |-> hasHref, href |-> href]

Card(rank, title, summary, hot, link) ==
  [rank |-> rank, title |-> title, summary |-> summary,
   hot_score |-> hot, link |-> link]

HotSearchItem(rank, title, summary, hot, url) ==
  [rank |-> rank, title |-> title, summary |-> summary,
   hot_score |-> hot, detail_url |-> url]

\* the rank of a card: ok = FALSE stands for AttributeError / ValueError
CardRank(card) ==
  IF Matches(card.rank)
    THEN ParseInt(Strip(SelectOne(card.rank)))
    ELSE [ok |-> FALSE, val |-> 0]

\* the item with the summary guarded by the title element
MakeItem_coupled(card, rank) ==
  HotSearchItem(
    rank,
    IF Matches(card.title) THEN Strip(SelectOne(card.title)) ELSE <<>>,
    IF Matches(card.title) /\ Matches(card.summary)
      THEN Strip(SelectOne(card.summary)) ELSE <<>>,
    IF Matches(card.hot_score) THEN Strip(SelectOne(card.hot_score)) ELSE <<>>,
    IF Matches(card.link) /\ SelectOne(card.link).has_href
      THEN Strip(SelectOne(card.link).href) ELSE <<>>)

\* the item built from a card whose rank was parsed
MakeItem(card, rank) ==
  HotSearchItem(
    rank,
    IF Matches(card.title) THEN Strip(SelectOne(card.title)) ELSE <<>>,
    IF Matches(card.summary) THEN Strip(SelectOne(card.summary)) ELSE <<>>,
    IF Matches(card.hot_score) THEN Strip(SelectOne(card.hot_score)) ELSE <<>>,
    IF Matches(card.link) /\ SelectOne(card.link).has_href
      THEN Strip(SelectOne(card.link).href) ELSE <<>>)

\* the loop body that also drops cards without a title
CardItems_titleRequired(card) ==
  IF CardRank(card).ok /\ Matches(card.title)
    THEN <<MakeItem(card, CardRank(card).val)>>
    ELSE <<>>

\* one iteration of the loop: the items a card appends
CardItems(card) ==
  IF CardRank(card).ok
    THEN <<MakeItem(card, CardRank(card).val)>>
    ELSE <<>>

RECURSIVE CollectItems(_)
CollectItems(cards) ==
  IF cards = <<>> THEN <<>>
  ELSE CardItems(Head(cards)) \o CollectItems(Tail(cards))

\* insert x after the last element whose rank is <= x.rank
RECURSIVE InsertByRank(_, _)
InsertByRank(sorted, x) ==
  IF sorted = <<>> THEN <<x>>
  ELSE IF x.rank < Head(sorted).rank THEN <<x>> \o sorted
  ELSE <<Head(sorted)>> \o InsertByRank(Tail(sorted), x)

RECURSIVE SortFrom(_, _)
SortFrom(sorted, rest) ==
  IF rest = <<>> THEN sorted
  ELSE SortFrom(InsertByRank(sorted, Head(rest)), Tail(rest))

\* the list left in document order
SortByRank_unsorted(its) == its

\* items.sort(key=lambda item: item.rank), a stable sort
SortByRank(its) == SortFrom(<<>>, its)

parse_hot_search(cards) == SortByRank(CollectItems(cards))

(* ------------------------------ inputs --------------------------------- *)
\* texts a rank element can carry
RankTexts ==
  { <<"1">>, <<"2">>, <<" ", "3", "\n">>, <<"0">>, <<"-", "1">>,
    <<"+", "2">>, <<"1", "_", "0">>, <<"x">>, <<"1", ".", "5">>,
    <<"-">>, <<" ">>, <<"_", "1">> }

RankElems == {<<>>} \cup {<<t>> : t \in RankTexts}

\* a card with every sub-element present once
FullCard(rank) ==
  Card(rank, <<<<"T">>>>, <<<<"S">>>>, <<<<"9">>>>,
       <<Link(TRUE, <<"u">>)>>)

\* absent, present but blank, present twice (padded first)
TextElems(c) == { <<>>, << <<" ">> >>, << <<" ", c, "\n">>, <<"X">> >> }
LinkElems ==
  { <<>>, <<Link(FALSE, <<>>)>>, <<Link(TRUE, <<" ">>)>>,
    <<Link(TRUE, <<" ", "u", " ">>), Link(TRUE, <<"v">>)>> }

PartialCards ==
  { Card(r, t, s, h, l) :
      r \in { <<>>, << <<"5">> >>, << <<"x">> >> },
      t \in TextElems("T"), s \in TextElems("S"), h \in TextElems("9"),
      l \in LinkElems }

SeqsUpTo(S, n) == UNION { [1..k -> S] : k \in 0..n }

FullPages == SeqsUpTo({FullCard(r) : r \in RankElems}, MaxCards)
PartialPages == SeqsUpTo(PartialCards, MaxPartialCards)
ParseInputs == FullPages \cup PartialPages

\* the boards the fetcher can return to a run of main
Pages ==
  { <<>>,
    <<FullCard(<<>>)>>,
    <<FullCard(<< <<"2">> >>), FullCard(<< <<"1">> >>)>>,
    <<Card(<< <<"5">> >>, <<>>, <<>>, <<>>, <<>>), FullCard(<< <<"x">> >>)>> }

FetchErrors == {"HTTPError", "ConnectionError", "Timeout"}

(* ------------------------------ clock ---------------------------------- *)
Times == { h \in 0..MaxClock : h % TickHours = 0 }

\* datetime.now(timezone.utc) read as civil time
Now_utc(utcHours) ==
  [day |-> utcHours \div HOURS_PER_DAY,
   hour |-> utcHours % HOURS_PER_DAY,
   utcoffset |-> 0]

\* datetime.now(timezone(timedelta(hours=8)))
Now(utcHours) ==
  [day |-> (utcHours + UTC_OFFSET_HOURS) \div HOURS_PER_DAY,
   hour |-> (utcHours + UTC_OFFSET_HOURS) % HOURS_PER_DAY,
   utcoffset |-> UTC_OFFSET_HOURS]

NoTime == [day |-> 0 - 1, hour |-> 0, utcoffset |-> 0]

\* timestamp.isoformat()
isoformat(ts) == <<ts.day, "T", ts.hour, "+", ts.utcoffset>>
\* timestamp.strftime("%Y%m%d")
date_suffix(ts) == ts.day

(* ------------------------------ files ---------------------------------- *)
Dates == 0..((MaxClock + UTC_OFFSET_HOURS) \div HOURS_PER_DAY)

DailyPath(d) == [dir |-> "data", name |-> "baidu-hotsearch", date |-> d]
LatestPath == [dir |-> "data", name |-> "latest", date |-> 0 - 1]
NoPath == [dir |-> "", name |-> "", date |-> 0 - 1]
Paths == {DailyPath(d) : d \in Dates} \cup {LatestPath}

NoFile == [kind |-> "absent", generated_at |-> <<>>, items |-> <<>>]
Truncated == [kind |-> "truncated", generated_at |-> <<>>, items |-> <<>>]

\* the payload as json.dump writes it: asdict(item) keeps the five fields
Snapshot(ts, its) ==
  [kind |-> "json", generated_at |-> isoformat(ts), items |-> its]

(* ------------------------------ state ---------------------------------- *)
VARIABLES
  pc,         \* position of the running process in main / save_results
  runs,       \* runs started so far
  clock,      \* hours since midnight UTC of day 0
  html,       \* the fetched board, as its list of cards
  items,      \* the parsed items
  timestamp,  \* save_results: timestamp
  payload,    \* save_results: payload
  daily_path, \* save_results: daily_path, once returned to main
  exc,        \* the exception in flight, "none" if none
  exitCode,   \* return value of main, -1 while running
  stderr,     \* messages printed to sys.stderr by this run
  stdout,     \* messages printed to sys.stdout by this run
  dirExists,  \* DATA_DIR exists
  files,      \* content of every path under DATA_DIR
  pre,        \* history: dirExists and files when the run started
  wrote,      \* history: what this run did to each of the two files
  lastOk      \* history: payload of the most recent run that returned 0

vars == <<pc, runs, clock, html, items, timestamp, payload, daily_path, exc,
          exitCode, stderr, stdout, dirExists, files, pre, wrote, lastOk>>

procVars == <<html, items, timestamp, payload, daily_path, exc, exitCode,
              stderr, stdout>>
diskVars == <<dirExists, files>>

NotWritten == [daily |-> "no", latest |-> "no"]

Init ==
  /\ pc = "idle"
  /\ runs = 0
  /\ clock = 0
  /\ html = <<>>
  /\ items = <<>>
  /\ timestamp = NoTime
  /\ payload = NoFile
  /\ daily_path = NoPath
  /\ exc = "none"
  /\ exitCode = 0 - 1
  /\ stderr = <<>>
  /\ stdout = <<>>
  /\ dirExists = FALSE
  /\ files = [p \in Paths |-> NoFile]
  /\ pre = [dirExists |-> FALSE, files |-> [p \in Paths |-> NoFile]]
  /\ wrote = NotWritten
  /\ lastOk = NoFile

\* a run that is about to parse one of the bounded boards
InitParse ==
  /\ pc = "parse"
  /\ runs = 1
  /\ clock = 0
  /\ html \in ParseInputs
  /\ items = <<>>
  /\ timestamp = NoTime
  /\ payload = NoFile
  /\ daily_path = NoPath
  /\ exc = "none"
  /\ exitCode = 0 - 1
  /\ stderr = <<>>
  /\ stdout = <<>>
  /\ dirExists = FALSE
  /\ files = [p \in Paths |-> NoFile]
  /\ pre = [dirExists |-> FALSE, files |-> [p \in Paths |-> NoFile]]
  /\ wrote = NotWritten
  /\ lastOk = NoFile

(* ------------------------------ main ----------------------------------- *)
\* the scheduler starts the next run once the previous one has exited
StartRun ==
  /\ pc \in {"idle", "exited"}
  /\ runs < MaxRuns
  /\ pc' = "fetch"
  /\ runs' = runs + 1
  /\ html' = <<>>
  /\ items' = <<>>
  /\ timestamp' = NoTime
  /\ payload' = NoFile
  /\ daily_path' = NoPath
  /\ exc' = "none"
  /\ exitCode' = 0 - 1
  /\ stderr' = <<>>
  /\ stdout' = <<>>
  /\ pre' = [dirExists |-> dirExists, files |-> files]
  /\ wrote' = NotWritten
  /\ UNCHANGED <<clock, dirExists, files, lastOk>>

\* html = fetch_hot_search_html(): the request succeeds
FetchOk ==
  /\ pc = "fetch"
  /\ \E page \in Pages : html' = page
  /\ pc' = "parse"
  /\ UNCHANGED <<runs, clock, items, timestamp, payload, daily_path, exc,
                 exitCode, stderr, stdout, dirExists, files, pre, wrote,
                 lastOk>>

\* requests.get raises, or raise_for_status raises
FetchFail ==
  /\ pc = "fetch"
  /\ \E e \in FetchErrors : exc' = e
  /\ pc' = "except"
  /\ UNCHANGED <<runs, clock, html, items, timestamp, payload, daily_path,
                 exitCode, stderr, stdout, dirExists, files, pre, wrote,
                 lastOk>>

\* items = parse_hot_search(html)
ParseOk ==
  /\ pc = "parse"
  /\ items' = parse_hot_search(html)
  /\ pc' = "check"
  /\ UNCHANGED <<runs, clock, html, timestamp, payload, daily_path, exc,
                 exitCode, stderr, stdout, dirExists, files, pre, wrote,
                 lastOk>>

\* BeautifulSoup rejects the markup
ParseRaise ==
  /\ pc = "parse"
  /\ exc' = "ParserRejectedMarkup"
  /\ pc' = "except"
  /\ UNCHANGED <<runs, clock, html, items, timestamp, payload, daily_path,
                 exitCode, stderr, stdout, dirExists, files, pre, wrote,
                 lastOk>>

\* the empty board reported as success
NoItems_returns0 ==
  /\ pc = "check"
  /\ items = <<>>
  /\ exitCode' = 0
  /\ pc' = "exited"
  /\ UNCHANGED <<runs, clock, html, items, timestamp, payload, daily_path,
                 exc, stderr, stdout, dirExists, files, pre, wrote, lastOk>>

\* the empty board saved like any other
NoItems_saves ==
  /\ pc = "check"
  /\ items = <<>>
  /\ pc' = "mkdir"
  /\ UNCHANGED <<runs, clock, html, items, timestamp, payload, daily_path,
                 exc, exitCode, stderr, stdout, dirExists, files, pre, wrote,
                 lastOk>>

\* if not items: print(...); return 1
NoItems ==
  /\ pc = "check"
  /\ items = <<>>
  /\ stderr' = Append(stderr, <<"No hot search items were found.">>)
  /\ exitCode' = 1
  /\ pc' = "exited"
  /\ UNCHANGED <<runs, clock, html, items, timestamp, payload, daily_path,
                 exc, stdout, dirExists, files, pre, wrote, lastOk>>

\* items is not empty: main calls save_results(items)
CallSave ==
  /\ pc = "check"
  /\ items # <<>>
  /\ pc' = "mkdir"
  /\ UNCHANGED <<runs, clock, html, items, timestamp, payload, daily_path,
                 exc, exitCode, stderr, stdout, dirExists, files, pre, wrote,
                 lastOk>>

(* --------------------------- save_results ------------------------------ *)
\* the archival path of this call
DailyFile == DailyPath(date_suffix(timestamp))

\* DATA_DIR.mkdir(parents=True, exist_ok=True)
MkdirOk ==
  /\ pc = "mkdir"
  /\ dirExists' = TRUE
  /\ pc' = "timestamp"
  /\ UNCHANGED <<runs, clock, html, items, timestamp, payload, daily_path,
                 exc, exitCode, stderr, stdout, files, pre, wrote, lastOk>>

\* mkdir raises (no permission, or data is a file)
MkdirFail ==
  /\ pc = "mkdir"
  /\ exc' = "OSError"
  /\ pc' = "except"
  /\ UNCHANGED <<runs, clock, html, items, timestamp, payload, daily_path,
                 exitCode, stderr, stdout, dirExists, files, pre, wrote,
                 lastOk>>

\* timestamp = datetime.now(UTC+8); payload = {...}
Timestamp ==
  /\ pc = "timestamp"
  /\ \E t \in Times :
       /\ t >= clock
       /\ clock' = t
       /\ timestamp' = Now(t)
       /\ payload' = Snapshot(Now(t), items)
  /\ pc' = "write_daily"
  /\ UNCHANGED <<runs, html, items, daily_path, exc, exitCode, stderr,
                 stdout, dirExists, files, pre, wrote, lastOk>>

\* daily_path.open("w") raises: the file is left as it was
OpenDailyFail ==
  /\ pc = "write_daily"
  /\ exc' = "OSError"
  /\ pc' = "except"
  /\ UNCHANGED <<runs, clock, html, items, timestamp, payload, daily_path,
                 exitCode, stderr, stdout, dirExists, files, pre, wrote,
                 lastOk>>

\* the file is opened (truncated) and the write raises
DumpDailyFail ==
  /\ pc = "write_daily"
  /\ files' = [files EXCEPT ![DailyFile] = Truncated]
  /\ wrote' = [wrote EXCEPT !.daily = "opened"]
  /\ exc' = "OSError"
  /\ pc' = "except"
  /\ UNCHANGED <<runs, clock, html, items, timestamp, payload, daily_path,
                 exitCode, stderr, stdout, dirExists, pre, lastOk>>

\* json.dump(payload, daily_file)
WriteDailyOk ==
  /\ pc = "write_daily"
  /\ files' = [files EXCEPT ![DailyFile] = payload]
  /\ wrote' = [wrote EXCEPT !.daily = "done"]
  /\ pc' = "write_latest"
  /\ UNCHANGED <<runs, clock, html, items, timestamp, payload, daily_path,
                 exc, exitCode, stderr, stdout, dirExists, pre, lastOk>>

\* latest_path.open("w") raises: the file is left as it was
OpenLatestFail ==
  /\ pc = "write_latest"
  /\ exc' = "OSError"
  /\ pc' = "except"
  /\ UNCHANGED <<runs, clock, html, items, timestamp, payload, daily_path,
                 exitCode, stderr, stdout, dirExists, files, pre, wrote,
                 lastOk>>

\* the file is opened (truncated) and the write raises
DumpLatestFail ==
  /\ pc = "write_latest"
  /\ files' = [files EXCEPT ![LatestPath] = Truncated]
  /\ wrote' = [wrote EXCEPT !.latest = "opened"]
  /\ exc' = "OSError"
  /\ pc' = "except"
  /\ UNCHANGED <<runs, clock, html, items, timestamp, payload, daily_path,
                 exitCode, stderr, stdout, dirExists, pre, lastOk>>

\* the second write, returning latest_path
WriteLatestOk_returnsLatest ==
  /\ pc = "write_latest"
  /\ files' = [files EXCEPT ![LatestPath] = payload]
  /\ wrote' = [wrote EXCEPT !.latest = "done"]
  /\ daily_path' = LatestPath
  /\ pc' = "saved"
  /\ UNCHANGED <<runs, clock, html, items, timestamp, payload, exc, exitCode,
                 stderr, stdout, dirExists, pre, lastOk>>

\* save_results without the second write
WriteLatestOk_skipped ==
  /\ pc = "write_latest"
  /\ daily_path' = DailyFile
  /\ pc' = "saved"
  /\ UNCHANGED <<runs, clock, html, items, timestamp, payload, exc, exitCode,
                 stderr, stdout, dirExists, files, pre, wrote, lastOk>>

\* json.dump(payload, latest_file); return daily_path
WriteLatestOk ==
  /\ pc = "write_latest"
  /\ files' = [files EXCEPT ![LatestPath] = payload]
  /\ wrote' = [wrote EXCEPT !.latest = "done"]
  /\ daily_path' = DailyFile
  /\ pc' = "saved"
  /\ UNCHANGED <<runs, clock, html, items, timestamp, payload, exc, exitCode,
                 stderr, stdout, dirExists, pre, lastOk>>

(* --------------------------- main, continued --------------------------- *)
\* print(f"Saved ..."); return 0
PrintSaved ==
  /\ pc = "saved"
  /\ stdout' = Append(stdout, <<"Saved", Len(items), daily_path>>)
  /\ exitCode' = 0
  /\ lastOk' = payload
  /\ pc' = "exited"
  /\ UNCHANGED <<runs, clock, html, items, timestamp, payload, daily_path,
                 exc, stderr, dirExists, files, pre, wrote>>

\* the handler reporting success
Except_returns0 ==
  /\ pc = "except"
  /\ stderr' = Append(stderr, <<"Error while fetching Baidu hot search", exc>>)
  /\ exitCode' = 0
  /\ pc' = "exited"
  /\ UNCHANGED <<runs, clock, html, items, timestamp, payload, daily_path,
                 exc, stdout, dirExists, files, pre, wrote, lastOk>>

\* except Exception as exc: print(..., file=sys.stderr); return 1
Except ==
  /\ pc = "except"
  /\ stderr' = Append(stderr, <<"Error while fetching Baidu hot search", exc>>)
  /\ exitCode' = 1
  /\ pc' = "exited"
  /\ UNCHANGED <<runs, clock, html, items, timestamp, payload, daily_path,
                 exc, stdout, dirExists, files, pre, wrote, lastOk>>

Next ==
  \/ StartRun
  \/ FetchOk
  \/ FetchFail
  \/ ParseOk
  \/ ParseRaise
  \/ NoItems
  \/ CallSave
  \/ MkdirOk
  \/ MkdirFail
  \/ Timestamp
  \/ OpenDailyFail
  \/ DumpDailyFail
  \/ WriteDailyOk
  \/ OpenLatestFail
  \/ DumpLatestFail
  \/ WriteLatestOk
  \/ PrintSaved
  \/ Except

Spec == Init /\ [][Next]_vars

\* the extractor alone, applied to every bounded board
NextParse == ParseOk

SpecParse == InitParse /\ [][NextParse]_vars

(* =========================== properties ================================ *)
(* The integer each rank text of the bounded boards denotes, and the       *)
(* trimmed form of each text, written out by hand.                         *)
Numerals ==
  { [text |-> <<"1">>, ok |-> TRUE, val |-> 1],
    [text |-> <<"2">>, ok |-> TRUE, val |-> 2],
    [text |-> <<" ", "3", "\n">>, ok |-> TRUE, val |-> 3],
    [text |-> <<"5">>, ok |-> TRUE, val |-> 5],
    [text |-> <<"0">>, ok |-> TRUE, val |-> 0],
    [text |-> <<"-", "1">>, ok |-> TRUE, val |-> 0 - 1],
    [text |-> <<"+", "2">>, ok |-> TRUE, val |-> 2],
    [text |-> <<"1", "_", "0">>, ok |-> TRUE, val |-> 10],
    [text |-> <<"x">>, ok |-> FALSE, val |-> 0],
    [text |-> <<"1", ".", "5">>, ok |-> FALSE, val |-> 0],
    [text |-> <<"-">>, ok |-> FALSE, val |-> 0],
    [text |-> <<" ">>, ok |-> FALSE, val |-> 0],
    [text |-> <<"_", "1">>, ok |-> FALSE, val |-> 0] }

Numeral(text) == CHOOSE n \in Numerals : n.text = text

Trimmings ==
  { [text |-> <<"T">>, trimmed |-> <<"T">>],
    [text |-> <<"S">>, trimmed |-> <<"S">>],
    [text |-> <<"9">>, trimmed |-> <<"9">>],
    [text |-> <<"u">>, trimmed |-> <<"u">>],
    [text |-> <<" ">>, trimmed |-> <<>>],
    [text |-> <<" ", "T", "\n">>, trimmed |-> <<"T">>],
    [text |-> <<" ", "S", "\n">>, trimmed |-> <<"S">>],
    [text |-> <<" ", "9", "\n">>, trimmed |-> <<"9">>],
    [text |-> <<" ", "u", " ">>, trimmed |-> <<"u">>] }

Trimmed(text) == (CHOOSE t \in Trimmings : t.text = text).trimmed

HasRank(card) == card.rank # <<>> /\ Numeral(card.rank[1]).ok
RankValue(card) == Numeral(card.rank[1]).val
RankedCards == { i \in DOMAIN html : HasRank(html[i]) }
Parsed == pc = "check"

TextFields == {"title", "summary", "hot_score"}
TextMissing(card, f) == card[f] = <<>>
UrlMissing(card) == card.link = <<>> \/ ~card.link[1].has_href

\* the entry the field-default rule prescribes for a ranked card
DefaultedEntry(card) ==
  [rank |-> RankValue(card),
   title |-> IF TextMissing(card, "title") THEN <<>>
             ELSE Trimmed(card.title[1]),
   summary |-> IF TextMissing(card, "summary") THEN <<>>
               ELSE Trimmed(card.summary[1]),
   hot_score |-> IF TextMissing(card, "hot_score") THEN <<>>
                 ELSE Trimmed(card.hot_score[1]),
   detail_url |-> IF UrlMissing(card) THEN <<>>
                  ELSE Trimmed(card.link[1].href)]

\* C1: when the ranked cards of the board have distinct ranks, the parsed
\* items are in strictly ascending order of rank, whatever the document order.
C1_SortedByRank ==
  (/\ Parsed
   /\ \A i, k \in RankedCards :
        i # k => RankValue(html[i]) # RankValue(html[k]))
  => \A j \in 1..(Len(items) - 1) : items[j].rank < items[j + 1].rank

\* Scenario A: cards ranked 2, 1, 3 come out as 1, 2, 3.
C1_Witness ==
  /\ Parsed
  /\ Len(html) = 3
  /\ html[1].rank = << <<"2">> >>
  /\ html[2].rank = << <<"1">> >>
  /\ html[3].rank = << <<" ", "3", "\n">> >>
  /\ Len(items) = 3
  /\ items[1].rank = 1 /\ items[2].rank = 2 /\ items[3].rank = 3

\* C2: the output has exactly one entry per card whose rank element is
\* present and denotes an integer; every other card contributes nothing,
\* whatever its other fields hold.
C2_OneEntryPerRankedCard ==
  Parsed =>
    /\ Len(items) = Cardinality(RankedCards)
    /\ \A i \in RankedCards :
         \E j \in DOMAIN items : items[j].rank = RankValue(html[i])
    /\ \A j \in DOMAIN items :
         \E i \in RankedCards : items[j].rank = RankValue(html[i])

\* Scenario B: one card without a rank element among two ranked cards.
C2_Witness ==
  /\ Parsed
  /\ Len(html) = 3
  /\ html[2] = FullCard(<<>>)
  /\ Cardinality(RankedCards) = 2
  /\ Len(items) = 2

\* C3 as stated: a field of the entry is the empty string exactly when its
\* sub-element is missing, and a present field holds its trimmed value.
C3_EmptyExactlyWhenMissing ==
  Parsed =>
    \A i \in RankedCards : \E j \in DOMAIN items :
      /\ items[j] = DefaultedEntry(html[i])
      /\ \A f \in TextFields : (items[j][f] = <<>>) <=> TextMissing(html[i], f)
      /\ (items[j].detail_url = <<>>) <=> UrlMissing(html[i])

\* C3 amended: every ranked card yields the entry in which each missing field
\* is the empty string and each present field is the trimmed text of its
\* first matching element (empty when that text is blank), each field
\* depending on its own sub-element only.
C3_FieldDefault ==
  Parsed =>
    /\ \A i \in RankedCards :
         \E j \in DOMAIN items : items[j] = DefaultedEntry(html[i])
    /\ \A j \in DOMAIN items :
         \E i \in RankedCards : items[j] = DefaultedEntry(html[i])

\* a ranked card with title and url only, the title padded
C3_Witness ==
  /\ Parsed
  /\ Len(html) = 1
  /\ html[1].rank = << <<"5">> >>
  /\ html[1].title = << <<" ", "T", "\n">>, <<"X">> >>
  /\ html[1].summary = <<>>
  /\ html[1].hot_score = <<>>
  /\ html[1].link # <<>> /\ html[1].link[1].href = <<" ", "u", " ">>
  /\ items = <<[rank |-> 5, title |-> <<"T">>, summary |-> <<>>,
                hot_score |-> <<>>, detail_url |-> <<"u">>]>>

\* C8 as stated: every parsed item has a rank of at least 1.
C8_RankPositive ==
  Parsed => \A j \in DOMAIN items : items[j].rank >= 1

\* C8 amended: every parsed item has an integer rank, the signed value its
\* card's rank text denotes; it is at least 1 only when that text denotes a
\* positive integer ("0" gives rank 0, "-1" gives rank -1).
C8_RankIsSignedValue ==
  Parsed =>
    /\ \A j \in DOMAIN items : items[j].rank \in Int
    /\ {items[j].rank : j \in DOMAIN items}
         = {RankValue(html[i]) : i \in RankedCards}

\* a board with the rank texts "-1", "0" and "1"
C8_Witness ==
  /\ Parsed
  /\ Len(html) = 3
  /\ html[1].rank = << <<"1">> >>
  /\ html[2].rank = << <<"-", "1">> >>
  /\ html[3].rank = << <<"0">> >>
  /\ Len(items) = 3
  /\ items[1].rank = 0 - 1 /\ items[2].rank = 0 /\ items[3].rank = 1

(* ------------------------- properties of a run -------------------------- *)
Exited == pc = "exited"
InSave == pc \in {"mkdir", "timestamp", "write_daily", "write_latest", "saved"}
FetchFailed == exc \in FetchErrors
SaveCompleted == wrote.daily = "done" /\ wrote.latest = "done"
DiskUntouched == dirExists = pre.dirExists /\ files = pre.files

\* the calendar date in UTC+8 of an instant given in hours UTC
UTC8Date(utcHours) == (utcHours + 8) \div 24
\* the archival path of the run's date, once the run has taken its timestamp
RunDailyPath == DailyPath(UTC8Date(clock))

\* C4: main returns 0 exactly when the fetch succeeded, at least one item was
\* extracted and save_results completed; otherwise (no item, or an exception
\* in fetch, parse or save) it returns 1, and then stderr holds a message.
C4_ExitCode ==
  Exited =>
    /\ exitCode \in {0, 1}
    /\ (exitCode = 0) <=> (~FetchFailed /\ Len(items) >= 1 /\ SaveCompleted)
    /\ (items = <<>> \/ exc # "none") => exitCode = 1
    /\ exitCode = 1 => stderr # <<>>

\* a run whose second write could not be opened
C4_Witness ==
  /\ Exited
  /\ exitCode = 1
  /\ exc = "OSError"
  /\ wrote = [daily |-> "done", latest |-> "no"]
  /\ stderr = << <<"Error while fetching Baidu hot search", "OSError">> >>

\* C5: a run whose fetch fails, or whose board yields no item, exits 1 and
\* leaves the data directory and every file as they were; save_results is
\* entered only after a successful fetch and a non-empty parse.
C5_NoWriteWithoutItems ==
  /\ (Exited /\ (FetchFailed \/ (exc = "none" /\ items = <<>>)))
       => (exitCode = 1 /\ DiskUntouched)
  /\ InSave => (exc = "none" /\ items # <<>>)

\* a failed fetch after a run that saved a snapshot
C5_Witness ==
  /\ Exited
  /\ runs = 2
  /\ exc = "HTTPError"
  /\ exitCode = 1
  /\ pre.dirExists
  /\ pre.files[LatestPath].kind = "json"
  /\ files = pre.files

\* C6: when save_results returns, the archival file of the run's UTC+8 date
\* and latest.json hold the same payload (this call's generated_at and
\* items), and the returned path is that archival path.
C6_SamePayload ==
  pc = "saved" =>
    /\ files[RunDailyPath] = files[LatestPath]
    /\ files[LatestPath].kind = "json"
    /\ files[LatestPath].items = items
    /\ files[LatestPath].generated_at
         = <<UTC8Date(clock), "T", (clock + 8) % 24, "+", 8>>
    /\ daily_path = RunDailyPath

\* 16:00 UTC of day 0 is 00:00 of day 1 in UTC+8
C6_Witness ==
  /\ pc = "saved"
  /\ clock = 16
  /\ daily_path = DailyPath(1)
  /\ files[DailyPath(1)].kind = "json"
  /\ files[DailyPath(0)].kind = "absent"

\* C7 as stated: a run ends with 0 and both files written, or with 1 and
\* neither file touched.
C7_AllOrNothing ==
  Exited =>
    \/ exitCode = 0 /\ SaveCompleted
    \/ exitCode = 1 /\ wrote = NotWritten /\ files = pre.files

\* C7 amended: a run ends with 0 and both files written, or with 1 and the
\* write of latest.json not completed; a run that ends with 1 touched a file
\* only if the exception was raised inside save_results after the archival
\* file was opened, and touched latest.json only after the archival write
\* was complete.
C7_ExitMatchesWrites ==
  Exited =>
    \/ /\ exitCode = 0
       /\ SaveCompleted
       /\ files[RunDailyPath] = payload
       /\ files[LatestPath] = payload
    \/ /\ exitCode = 1
       /\ wrote.latest # "done"
       /\ wrote = NotWritten => files = pre.files
       /\ wrote # NotWritten => exc = "OSError"
       /\ wrote.latest # "no" => wrote.daily = "done"

\* the archival file written, latest.json not
C7_Witness ==
  /\ Exited
  /\ exitCode = 1
  /\ wrote = [daily |-> "done", latest |-> "no"]
  /\ files[RunDailyPath] = payload
  /\ files[LatestPath] = pre.files[LatestPath]
  /\ files[RunDailyPath] # pre.files[RunDailyPath]

\* C9 as stated: between runs latest.json holds the snapshot of the most
\* recent run that returned 0, and a run that returns 1 leaves it unchanged.
C9_LatestIsLastSuccess ==
  Exited =>
    /\ lastOk # NoFile => files[LatestPath] = lastOk
    /\ exitCode = 1 => files[LatestPath] = pre.files[LatestPath]

\* C9 amended: between runs latest.json holds the snapshot of the most recent
\* run that returned 0, unless a later run raised while writing latest.json
\* after opening it, which leaves it truncated; a run that returns 1 without
\* having opened latest.json leaves it unchanged.
C9_LatestIsLastSuccessOrTruncated ==
  Exited =>
    /\ (lastOk # NoFile /\ files[LatestPath] # Truncated)
         => files[LatestPath] = lastOk
    /\ exitCode = 0 => (lastOk = payload /\ files[LatestPath] = payload)
    /\ (exitCode = 1 /\ wrote.latest = "no")
         => files[LatestPath] = pre.files[LatestPath]
    /\ files[LatestPath] # pre.files[LatestPath] => wrote.latest # "no"

\* a failing run after a successful one
C9_Witness ==
  /\ Exited
  /\ runs = 2
  /\ exitCode = 1
  /\ wrote.daily = "opened"
  /\ lastOk.kind = "json"
  /\ files[LatestPath] = lastOk

\* C10: a run touches no archival file other than the one of the UTC+8 date
\* of its timestamp (none at all before it has a timestamp), and a run that
\* returns 0 leaves its own payload in that file, replacing an earlier
\* snapshot of the same date.
C10_OnlyOwnDate ==
  /\ \A d \in Dates :
       (timestamp = NoTime \/ d # UTC8Date(clock))
         => files[DailyPath(d)] = pre.files[DailyPath(d)]
  /\ (Exited /\ exitCode = 0) => files[RunDailyPath] = payload

\* a second successful run on one date, at a later hour, with the snapshot
\* of an earlier date on disk
C10_Witness ==
  /\ Exited
  /\ exitCode = 0
  /\ runs = 3
  /\ \E d \in Dates :
       /\ d # UTC8Date(clock)
       /\ pre.files[DailyPath(d)].kind = "json"
       /\ files[DailyPath(d)] = pre.files[DailyPath(d)]
  /\ pre.files[RunDailyPath].kind = "json"
  /\ pre.files[RunDailyPath].generated_at # payload.generated_at
  /\ pre.files[RunDailyPath].generated_at[1] = payload.generated_at[1]
  /\ files[RunDailyPath] = payload

====
